---- MODULE Spec2Model ----
(***************************************************************************)
(* F1 analytics dashboard (src/streamlit_app.py) and CSV importer          *)
(* (src/importador.py): the data store tables, the memoised loader, the    *)
(* CRUD panel on the driver reference table and the read-only pages        *)
(* (season overview, driver dossier, head-to-head, hall of fame).          *)
(*                                                                         *)
(* Tables are pandas DataFrames in the code.  A table whose row order a    *)
(* computation reads (drivers: .iloc[0] after a name filter) is a sequence *)
(* of rows; the others are sets of rows.  A nullable numeric column holds  *)
(* NaN for a missing value; comparisons with NaN are false, as in pandas.  *)
(***************************************************************************)
EXTENDS Integers, Sequences, FiniteSets, TLC

\* ------------------------------------------------------------------ bounds
\* points of one entry range over 0..MaxPoints
MaxPoints == 2
\* finishing positions range over 1..MaxPosition, or NaN
MaxPosition == 2
\* number of statements the CRUD panel may commit in one run
MaxWrites == 2
\* greatest driver id a concurrent create request may be given
MaxId == 4

NaN == 0 - 1
RaceIds == {1, 2}
Years == {2020, 2021}
Rounds == {1, 2}
DriverIds == {1, 2}
ConstructorIds == {1, 2}
DriverNames == {"a", "b"}
NoSelection == "none"
Sessions == {1, 2}

VARIABLES
    races,                  \* table races: rows [raceId, year, round, circuitId]
    results,                \* table results: rows [raceId, driverId, constructorId, grid, points, position, status]
    drivers,                \* table drivers (tbl_pilotos): sequence of rows [driverId, driver_name, code, number]
    driver_standings,       \* table driver_standings: rows [raceId, driverId, points, position]
    constructor_standings,  \* table constructor_standings: rows [raceId, constructorId, points, position]
    qualifying,             \* table qualifying: rows [raceId, driverId, position]
    cache,                  \* st.cache_data entry of carregar_todos_os_dados
    writes,                 \* number of statements committed so far
    out,                    \* outcome of the last script run: what it showed or computed
    conn_memo,              \* st.cache_resource entry of conectar_db
    tx,                     \* open transaction of the one connection the sessions share
    sess,                   \* per session: where its write request stands
    tbl,                    \* the six tables importar_dados writes: rows [id, v], v the row's origin
    imp                     \* outcome of the last importar_dados run

tables == <<races, results, drivers, driver_standings, constructor_standings, qualifying>>
conexoes == <<conn_memo, tx, sess>>
importador == <<tbl, imp>>
vars == <<races, results, drivers, driver_standings, constructor_standings, qualifying,
          cache, writes, out, conn_memo, tx, sess, tbl, imp>>

\* ----------------------------------------------------------------- helpers
Range(s) == {s[i] : i \in DOMAIN s}

Max(S) == CHOOSE x \in S : \A y \in S : y <= x

RECURSIVE SumPoints(_)
\* Series.sum() of the points column of a set of rows
SumPoints(rows) ==
    IF rows = {} THEN 0
    ELSE LET r == CHOOSE x \in rows : TRUE
         IN r.points + SumPoints(rows \ {r})

\* constructors and status are reference tables no modelled operation writes;
\* a results row carries the status text its statusId stands for
constructors == {[constructorId |-> c] : c \in ConstructorIds}
\* table circuits, likewise never written: circuit 2 holds no race
circuits == {[circuitId |-> 1, name |-> "c"], [circuitId |-> 2, name |-> "d"]}
CircuitNames == {c.name : c \in circuits}
Statuses == {"Finished", "+1 Lap", "Engine"}

\* ------------------------------------------------- carregar_todos_os_dados
\* data['results_full']: results inner-joined with races, drivers and
\* constructors; a result row whose race, driver or constructor has no row in
\* the joined table is dropped.
results_full(rs, rc, dr) ==
    {[raceId |-> r.raceId, driverId |-> r.driverId, constructorId |-> r.constructorId,
      grid |-> r.grid, points |-> r.points, position |-> r.position,
      status |-> r.status,
      year |-> ra.year, round |-> ra.round, driver_name |-> d.driver_name] :
        <<r, ra, d>> \in {t \in rs \X rc \X Range(dr) :
            /\ t[1].raceId = t[2].raceId
            /\ t[1].driverId = t[3].driverId
            /\ \E c \in constructors : c.constructorId = t[1].constructorId}}

\* What a run of the loader's body returns: the tables as read from the data
\* store, plus results_full.
ler_dados ==
    [races |-> races, results |-> results, drivers |-> drivers,
     driver_standings |-> driver_standings,
     constructor_standings |-> constructor_standings,
     qualifying |-> qualifying,
     results_full |-> results_full(results, races, drivers)]

EmptyCache == [state |-> "empty"]

\* no statement pending on the shared connection
EmptyTx == [stmts |-> <<>>, aborted |-> FALSE]

\* @st.cache_data(ttl=60): the memoised value while the entry is live, a
\* fresh read otherwise
carregar_todos_os_dados ==
    IF cache.state = "data" THEN cache.data ELSE ler_dados

\* ------------------------------------------------------ points aggregation
\* results_full.groupby(['year', key])['points'].sum().reset_index(): one row
\* per (year, competitor) that has an entry, in ascending (year, key) order.
pontos_por_ano_piloto(rf) ==
    {[year |-> k[1], id |-> k[2],
      points |-> SumPoints({r \in rf : r.year = k[1] /\ r.driverId = k[2]})] :
        k \in {<<r.year, r.driverId>> : r \in rf}}

pontos_por_ano_construtor(rf) ==
    {[year |-> k[1], id |-> k[2],
      points |-> SumPoints({r \in rf : r.year = k[1] /\ r.constructorId = k[2]})] :
        k \in {<<r.year, r.constructorId>> : r \in rf}}

\* A bug the aggregation could have: idxmin instead of idxmax.
indices_campeoes_min(tab) ==
    {r \in tab : \A o \in tab : o.year = r.year =>
        (o.points > r.points \/ (o.points = r.points /\ o.id >= r.id))}

\* tab.loc[tab.groupby('year')['points'].idxmax()]: per year the row with the
\* greatest points; idxmax returns the first such row, and the rows are in
\* ascending competitor id order.
indices_campeoes(tab) ==
    {r \in tab : \A o \in tab : o.year = r.year =>
        (o.points < r.points \/ (o.points = r.points /\ o.id >= r.id))}

\* ------------------------------------------------------------ name lookup
\* data['drivers'][data['drivers']['driver_name'] == nome]: the matching rows,
\* in table order
rows_named(dr, nome) == SelectSeq(dr, LAMBDA d : d.driver_name = nome)

\* ------------------------------------------------------- career counts
\* (rows['position'] == 1).sum()
total_vitorias(rows) == Cardinality({r \in rows : r.position = 1})

\* A bug the podium count could have: the fourth place counted as well.
total_podios_ate_quarto(rows) == Cardinality({r \in rows : r.position \in {1, 2, 3, 4}})

\* rows['position'].isin([1, 2, 3]).sum()
total_podios(rows) == Cardinality({r \in rows : r.position \in {1, 2, 3}})

\* (res_piloto['grid'] == 1).sum()
total_poles(rows) == Cardinality({r \in rows : r.grid = 1})

\* (quali1['position'] == 1).sum(), quali1 the driver's qualifying rows
poles(ql, id) == Cardinality({q \in ql : q.driverId = id /\ q.position = 1})

\* rows['position'].isna().sum()
total_dnfs(rows) == Cardinality({r \in rows : r.position = NaN})

\* rows['raceId'].nunique()
total_corridas(rows) == Cardinality({r.raceId : r \in rows})

\* ((total - total_dnfs) / total * 100) if total > 0 else 0, as the fraction
\* num / den of one (den = 0: the value 0)
confiabilidade(total, dnfs) ==
    IF total > 0 THEN [num |-> total - dnfs, den |-> total] ELSE [num |-> 0, den |-> 0]

\* ---------------------------------------------------- render_hall_da_fama
\* 'name_x' and 'name_y' are renamed to 'gp_name' and 'constructor_name' when
\* results_full is built (line 94), so a later results_full[...]['name_y'] or
\* row['name_x'] raises KeyError
KeyError_name_y == TRUE

\* corridas_por_piloto >= 50, scaled to the races of the model: a driver who
\* entered every race
MinCorridas == Cardinality(RaceIds)

\* results_full.groupby('driverId')['raceId'].nunique()
corridas_por_piloto(rf) ==
    [d \in {r.driverId : r \in rf} |-> total_corridas({r \in rf : r.driverId = d})]

\* (vitorias_por_piloto_raw / corridas_por_piloto).dropna().nlargest(1): the
\* winning rows per driver with enough races (value_counts has no row for a
\* driver without a win), divided by the driver's number of races; a driver
\* missing on either side gives NaN and is dropped; of the rest the greatest
\* rate is kept, the first in driver id order among equals.  A rate is a row
\* [driverId, vitorias, corridas] standing for vitorias / corridas.
perc_vitorias(rf) ==
    LET cpp == corridas_por_piloto(rf)
        corridas_validas == {d \in DOMAIN cpp : cpp[d] >= MinCorridas}
        taxas == {[driverId |-> d,
                   vitorias |-> total_vitorias({r \in rf : r.driverId = d}),
                   corridas |-> cpp[d]] :
                     d \in {x \in corridas_validas :
                               \E r \in rf : r.driverId = x /\ r.position = 1}}
    IN {t \in taxas : \A o \in taxas :
            \/ o.vitorias * t.corridas < t.vitorias * o.corridas
            \/ /\ o.vitorias * t.corridas = t.vitorias * o.corridas
               /\ o.driverId >= t.driverId}

\* the champion tables the page computes (lines 898-906) before
\* groupby(['year', 'name_y']) at line 910 ends the run; nothing of the page
\* has been shown by then, and the records computed after that line (the win
\* rate among them) do not come about
render_hall_da_fama(data) ==
    out' = [page |-> "hall_da_fama", kind |-> "ok", erro |-> KeyError_name_y,
            perc_vitorias |->
                IF KeyError_name_y THEN {} ELSE perc_vitorias(data.results_full),
            campeoes_pilotos |-> indices_campeoes(pontos_por_ano_piloto(data.results_full)),
            campeoes_construtores |->
                indices_campeoes(pontos_por_ano_construtor(data.results_full))]

\* ------------------------------------------------- columns added by pages
\* astype(str) of a position: the strings '1.0', '2.0', ... are coded as the
\* numbers above Str0, which equal no position and are not NaN
Str0 == 100
astype_str(pos) == Str0 + pos

\* podios_df: the podium rows of the season's frame, position cast to string
podios_df(results_full_ano) ==
    {[r EXCEPT !.position = astype_str(r.position)] :
        r \in {x \in results_full_ano : x.position \in {1, 2, 3}}}

\* groupby('constructor_name')['position'].value_counts().unstack(fill_value=0)
\* .reindex(columns=['1.0', '2.0', '3.0'], fill_value=0): one row per
\* constructor with a podium, the count of each step
podios_por_equipe_detalhado(results_full_ano) ==
    LET df == podios_df(results_full_ano)
        n(c, pos) == Cardinality({r \in df : /\ r.constructorId = c
                                             /\ r.position = astype_str(pos)})
    IN {[constructorId |-> c, p1 |-> n(c, 1), p2 |-> n(c, 2), p3 |-> n(c, 3)] :
            c \in {r.constructorId : r \in df}}

\* results_full_ano['pos_ganhas'] = grid - position, NaN for an unclassified
\* entry; the row at idxmax() gives the highlighted gain
maior_escalada(results_full_ano) ==
    Max({r.grid - r.position : r \in {x \in results_full_ano : x.position # NaN}})

\* categoriza_resultado_carreira
categoriza_resultado_carreira(pos) ==
    IF pos = 1 THEN "Vitoria"
    ELSE IF pos \in {2, 3} THEN "Podio (2-3)"
    ELSE IF pos # NaN /\ 4 <= pos /\ pos <= 10 THEN "Nos Pontos"
    ELSE IF pos # NaN THEN "Fora dos Pontos"
    ELSE "DNF"

\* res_piloto['categoria_resultado'].value_counts(): one row per category
\* that occurs
resultado_counts(res_piloto) ==
    {[categoria |-> c,
      n |-> Cardinality({r \in res_piloto :
                            categoriza_resultado_carreira(r.position) = c})] :
        c \in {categoriza_resultado_carreira(r.position) : r \in res_piloto}}

\* A bug the pages could have: the column changes are made on the frame of
\* the cached data set, so the season's podium rows keep the string position.
objeto_em_cache_alterado(dados, app_page, selecao) ==
    IF app_page = "Visao Geral"
    THEN [dados EXCEPT !.results_full =
            {IF r.year = selecao[1] /\ r.position \in {1, 2, 3}
             THEN [r EXCEPT !.position = astype_str(r.position)] ELSE r :
                r \in dados.results_full}]
    ELSE dados

\* The value the cache entry holds after a page ran on the value it handed
\* out.  st.cache_data hands every caller its own copy, and each page works
\* on frames selected from that copy with a boolean mask (results_full_ano,
\* podios_df, res_piloto), which are new frames: the entry is as it was.
objeto_em_cache(dados, app_page, selecao) == dados

\* -------------------------------------------------- render_analise_pilotos
\* the career dossier: the counts of the first tab and the reliability rate
\* of the last
render_analise_pilotos(data, piloto_nome) ==
    /\ piloto_nome \in {data.drivers[i].driver_name : i \in DOMAIN data.drivers}
                           \cup {NoSelection}
    /\ IF piloto_nome = NoSelection
       THEN out' = [page |-> "analise_pilotos", kind |-> "info"]
       ELSE LET id_piloto == rows_named(data.drivers, piloto_nome)[1].driverId
                rf == data.results_full
                res_piloto == {r \in rf : r.driverId = id_piloto}
                campeoes == indices_campeoes(pontos_por_ano_piloto(rf))
            IN IF res_piloto = {}
               THEN out' = [page |-> "analise_pilotos", kind |-> "warning"]
               ELSE out' = [page |-> "analise_pilotos", kind |-> "ok",
                            id_piloto |-> id_piloto,
                            campeonatos_vencidos |->
                                Cardinality({c \in campeoes : c.id = id_piloto}),
                            total_corridas |-> total_corridas(res_piloto),
                            total_vitorias |-> total_vitorias(res_piloto),
                            total_podios |-> total_podios(res_piloto),
                            total_poles |-> total_poles(res_piloto),
                            total_dnfs |-> total_dnfs(res_piloto),
                            resultado_counts |-> resultado_counts(res_piloto),
                            confiabilidade |->
                                confiabilidade(total_corridas(res_piloto),
                                               total_dnfs(res_piloto))]

\* --------------------------------------------- render_analise_construtores
\* The team dossier: the counts of the first tab and the reliability rate.
\* The selectbox offers the names of the constructors table; the selection is
\* given here as the id of the first row with the selected name.
\* races['date']: the races of a season are dated in round order
date(ra) == ra.round

\* data['races'].merge(data['constructor_standings'], on='raceId'): one row
\* per standings row whose race is in races
races_com_standings_c(rc, cs) ==
    {[raceId |-> s.raceId, year |-> ra.year, date |-> date(ra),
      constructorId |-> s.constructorId, position |-> s.position] :
        <<ra, s>> \in {t \in rc \X cs : t[1].raceId = t[2].raceId}}

\* groupby('year')['date'].idxmax() names one row per season, the first of
\* the rows with the season's latest date.  The merged table has a row per
\* constructor for that race, in the order 'select * from
\* constructor_standings' returned them (no ORDER BY): any of them may be
\* the first.  The set of the tables finais_de_ano_c may be, each a function
\* from season to row.
finais_de_ano_c(merged) ==
    LET anos == {m.year : m \in merged}
        ultimas(y) == {m \in merged : /\ m.year = y
                                      /\ \A n \in merged : n.year = y => n.date <= m.date}
    IN {f \in [anos -> merged] : \A y \in anos : f[y] \in ultimas(y)}

\* finais_de_ano_c[(position == 1) & (constructorId == id_construtor)].shape[0]
campeonatos_constr(finais, id_construtor) ==
    Cardinality({y \in DOMAIN finais : /\ finais[y].position = 1
                                       /\ finais[y].constructorId = id_construtor})

render_analise_construtores(data, id_construtor) ==
    /\ id_construtor \in ConstructorIds \cup {0}
    /\ IF id_construtor = 0
       THEN out' = [page |-> "analise_construtores", kind |-> "info"]
       ELSE LET results_construtor ==
                    {r \in data.results_full : r.constructorId = id_construtor}
            IN IF results_construtor = {}
               THEN out' = [page |-> "analise_construtores", kind |-> "warning"]
               ELSE \E finais \in finais_de_ano_c(
                        races_com_standings_c(data.races, data.constructor_standings)) :
                    out' = [page |-> "analise_construtores", kind |-> "ok",
                            id_construtor |-> id_construtor,
                            campeonatos_constr |->
                                campeonatos_constr(finais, id_construtor),
                            total_corridas |-> total_corridas(results_construtor),
                            total_vitorias |-> total_vitorias(results_construtor),
                            total_podios |-> total_podios(results_construtor),
                            total_entradas |-> Cardinality(results_construtor),
                            total_dnfs |-> total_dnfs(results_construtor),
                            confiabilidade |->
                                confiabilidade(Cardinality(results_construtor),
                                               total_dnfs(results_construtor))]

\* ----------------------------------------------------- render_visao_geral
\* A bug the overview could have: no check for a season without results.
sem_resultados_nunca(results_full_ano) == FALSE

\* results_full_ano.empty
sem_resultados(results_full_ano) == results_full_ano = {}

\* standings.sort_values('raceId', ascending=False).iloc[0]['raceId']
id_ultima_corrida(standings_ano) == Max({s.raceId : s \in standings_ano})

\* vitorias_por_equipe.index[0] (and podios_por_piloto.index[0]) raise
\* IndexError when no entry of the season has position 1
sem_vencedor(results_full_ano) == ~ \E r \in results_full_ano : r.position = 1

\* The season overview: the empty-season check, the final race, the two
\* champions, the highlight metrics and the final standings charts of the
\* first tab.  An .iloc[0] or .index[0] on an empty selection raises
\* IndexError, which ends the script run: with kind "exception" nothing but
\* the error is shown, with kind "destaques" the champions had been shown
\* before the first tab raised.  The standings tables come from 'select *'
\* without ORDER BY, so when several rows of the final race hold position 1
\* any of them may be the first.
render_visao_geral(data, ano_selecionado) ==
    /\ ano_selecionado \in {r.year : r \in data.races}
    /\ LET races_ano == {r \in data.races : r.year = ano_selecionado}
           race_ids_ano == {r.raceId : r \in races_ano}
           results_full_ano == {r \in data.results_full : r.raceId \in race_ids_ano}
           standings_ano == {s \in data.driver_standings : s.raceId \in race_ids_ano}
           exception == [page |-> "visao_geral", kind |-> "exception", ano |-> ano_selecionado]
       IN IF sem_resultados(results_full_ano)
          THEN out' = [page |-> "visao_geral", kind |-> "warning", ano |-> ano_selecionado]
          ELSE IF standings_ano = {}
          THEN out' = exception
          ELSE LET ultima == id_ultima_corrida(standings_ano)
                   standings_final_pilotos ==
                       {s \in data.driver_standings : s.raceId = ultima}
                   standings_final_constr ==
                       {s \in data.constructor_standings : s.raceId = ultima}
                   lideres_p == {s \in standings_final_pilotos : s.position = 1}
                   lideres_c == {s \in standings_final_constr : s.position = 1}
               IN \/ /\ lideres_p = {} \/ lideres_c = {}
                     /\ out' = exception
                  \/ \E p \in lideres_p, c \in lideres_c :
                        IF \/ ~ \E i \in DOMAIN data.drivers :
                                    data.drivers[i].driverId = p.driverId
                           \/ ~ \E k \in constructors : k.constructorId = c.constructorId
                        THEN out' = exception
                        ELSE IF sem_vencedor(results_full_ano)
                        THEN out' =
                            [page |-> "visao_geral", kind |-> "destaques",
                             ano |-> ano_selecionado,
                             id_ultima_corrida |-> ultima,
                             campeao_piloto |-> p.driverId,
                             campeao_constr |-> c.constructorId]
                        ELSE out' =
                            [page |-> "visao_geral", kind |-> "ok", ano |-> ano_selecionado,
                             id_ultima_corrida |-> ultima,
                             campeao_piloto |-> p.driverId,
                             campeao_constr |-> c.constructorId,
                             podios_por_equipe |->
                                 podios_por_equipe_detalhado(results_full_ano),
                             maior_escalada |-> maior_escalada(results_full_ano),
                             top_drivers |->
                                 {[driverId |-> s.driverId, points |-> s.points] :
                                     s \in {x \in standings_final_pilotos :
                                         \E i \in DOMAIN data.drivers :
                                             data.drivers[i].driverId = x.driverId}},
                             top_constructors |->
                                 {[constructorId |-> s.constructorId, points |-> s.points] :
                                     s \in {x \in standings_final_constr :
                                         \E k \in constructors :
                                             k.constructorId = x.constructorId}}]

\* ------------------------------------------------------------- render_h2h
\* A bug the selection check could have: equal selections are let through.
mesmo_piloto_nunca(piloto1_nome, piloto2_nome) == FALSE

\* piloto1_nome == piloto2_nome
mesmo_piloto(piloto1_nome, piloto2_nome) == piloto1_nome = piloto2_nome

\* res1.merge(res2, on='raceId', suffixes=('_p1', '_p2')): the pairs of an
\* entry of the first and an entry of the second driver in the same race
res_comum(res1, res2) == {p \in res1 \X res2 : p[1].raceId = p[2].raceId}

\* res_comum.dropna(subset=['position_p1', 'position_p2'])
res_comum_finalizado(comum) ==
    {p \in comum : p[1].position # NaN /\ p[2].position # NaN}

\* A bug the first count could have: <= instead of <.
vantagem_corrida_p1_ou_igual(finalizado) ==
    Cardinality({p \in finalizado : p[1].position <= p[2].position})

\* (res_comum_finalizado['position_p1'] < res_comum_finalizado['position_p2']).sum()
vantagem_corrida_p1(finalizado) ==
    Cardinality({p \in finalizado : p[1].position < p[2].position})

\* A bug the second count could have: <= instead of <.
vantagem_corrida_p2_ou_igual(finalizado) ==
    Cardinality({p \in finalizado : p[2].position <= p[1].position})

\* (res_comum_finalizado['position_p2'] < res_comum_finalizado['position_p1']).sum()
vantagem_corrida_p2(finalizado) ==
    Cardinality({p \in finalizado : p[2].position < p[1].position})

\* What render_h2h computes for a pair of selections.  With erro the run
\* ended in the 'Placar Geral' columns: ultima_corrida['name_x'] (lines 826,
\* 835) is read for a driver who has entries, after the counts were computed
\* and before the 'Confronto Direto' subheader.
h2h(dr, rf, ql, piloto1_nome, piloto2_nome) ==
    IF piloto1_nome = NoSelection \/ piloto2_nome = NoSelection
    THEN [page |-> "h2h", kind |-> "info",
          piloto1_nome |-> piloto1_nome, piloto2_nome |-> piloto2_nome]
    ELSE IF mesmo_piloto(piloto1_nome, piloto2_nome)
    THEN [page |-> "h2h", kind |-> "warning",
          piloto1_nome |-> piloto1_nome, piloto2_nome |-> piloto2_nome]
    ELSE LET id1 == rows_named(dr, piloto1_nome)[1].driverId
             id2 == rows_named(dr, piloto2_nome)[1].driverId
             res1 == {r \in rf : r.driverId = id1}
             res2 == {r \in rf : r.driverId = id2}
             finalizado == res_comum_finalizado(res_comum(res1, res2))
         IN [page |-> "h2h", kind |-> "ok",
             piloto1_nome |-> piloto1_nome, piloto2_nome |-> piloto2_nome,
             id1 |-> id1, id2 |-> id2,
             erro |-> KeyError_name_y /\ (res1 # {} \/ res2 # {}),
             vitorias1 |-> total_vitorias(res1),
             vitorias2 |-> total_vitorias(res2),
             poles1 |-> poles(ql, id1),
             poles2 |-> poles(ql, id2),
             vantagem_corrida_p1 |-> vantagem_corrida_p1(finalizado),
             vantagem_corrida_p2 |-> vantagem_corrida_p2(finalizado),
             corridas |-> Cardinality(finalizado)]

\* the selectboxes offer the names of the drivers table, or no selection
render_h2h(data, piloto1_nome, piloto2_nome) ==
    /\ {piloto1_nome, piloto2_nome} \subseteq
          {data.drivers[i].driver_name : i \in DOMAIN data.drivers} \cup {NoSelection}
    /\ out' = h2h(data.drivers, data.results_full, data.qualifying,
                  piloto1_nome, piloto2_nome)

\* ------------------------------------------------ render_analise_circuitos
\* The circuit page down to its header metrics.  .iloc[0] on the winner of
\* the circuit's latest race raises IndexError when that race has no entry
\* with position 1.
render_analise_circuitos(data, circuito_nome) ==
    /\ circuito_nome \in CircuitNames \cup {NoSelection}
    /\ IF circuito_nome = NoSelection
       THEN out' = [page |-> "analise_circuitos", kind |-> "info"]
       ELSE LET id_circuito == (CHOOSE c \in circuits : c.name = circuito_nome).circuitId
                races_circuito == {r \in data.races : r.circuitId = id_circuito}
                race_ids_circuito == {r.raceId : r \in races_circuito}
                results_circuito ==
                    {r \in data.results_full : r.raceId \in race_ids_circuito}
            IN IF results_circuito = {}
               THEN out' = [page |-> "analise_circuitos", kind |-> "warning"]
               ELSE LET ultimo_gp == Max({r.year : r \in races_circuito})
                    IN \E ultima \in {r \in races_circuito : r.year = ultimo_gp} :
                          LET vencedores ==
                                  {r \in results_circuito :
                                      r.raceId = ultima.raceId /\ r.position = 1}
                          IN IF vencedores = {}
                             THEN out' = [page |-> "analise_circuitos",
                                          kind |-> "exception"]
                             ELSE \E v \in vencedores :
                                    out' = [page |-> "analise_circuitos", kind |-> "ok",
                                            primeiro_gp |->
                                                0 - Max({0 - r.year : r \in races_circuito}),
                                            ultimo_gp |-> ultimo_gp,
                                            total_gps |-> Cardinality(race_ids_circuito),
                                            vencedor_ultimo_gp |-> v.driverId]

\* A bug a page could have: the Hall of Fame runs a statement.
comandos_da_pagina_com_escrita(app_page) ==
    IF app_page = "Hall da Fama" THEN <<[tipo |-> "DELETE", id |-> 1]>> ELSE <<>>

\* The statements a page function runs on the connection.  main hands every
\* page the loaded data set and nothing else (page_function(dados_completos)),
\* and no page function calls executar_comando_sql, commit, rollback or
\* st.cache_data.clear(): there are none.
comandos_da_pagina(app_page) == <<>>

\* -------------------------------------------------------------------- main
\* A bug main could have: no st.stop() on a None result.
prossegue_sempre(valor) == TRUE

\* 'if conn is None: st.stop()' and 'if dados_completos is None: st.stop()':
\* the run goes on only with a value
prossegue(valor) == valor # "None"

\* One script run that gets as far as a page: the menu choice, the memoised
\* connection (made by this run if there is no entry yet), the memoised data
\* set (read by this run if there is no live entry) and the page function of
\* page_map.  selecao holds the choices made in the page's selectboxes.
main(app_page, selecao) ==
    LET dados_completos == carregar_todos_os_dados
    IN /\ prossegue(conn_memo)
       /\ prossegue(cache.state)
       /\ conn_memo' = "conn"
       /\ cache' = [state |-> "data",
                    data |-> objeto_em_cache(dados_completos, app_page, selecao)]
       /\ tx' = [tx EXCEPT !.stmts = tx.stmts \o comandos_da_pagina(app_page)]
       /\ UNCHANGED <<tables, writes, sess, importador>>
       /\ CASE app_page = "Visao Geral" -> render_visao_geral(dados_completos, selecao[1])
            [] app_page = "Analise de Pilotos" ->
                   render_analise_pilotos(dados_completos, selecao[1])
            [] app_page = "Analise de Construtores" ->
                   render_analise_construtores(dados_completos, selecao[1])
            [] app_page = "Analise de Circuitos" ->
                   render_analise_circuitos(dados_completos, selecao[1])
            [] app_page = "H2H" -> render_h2h(dados_completos, selecao[1], selecao[2])
            [] app_page = "Hall da Fama" -> render_hall_da_fama(dados_completos)

\* One script run that ends in st.stop() before any page.  conectar_db and
\* carregar_todos_os_dados return None from their except branch, and the
\* memoising decorators store that return value like any other: a run that
\* finds the entry "None" is handed None again without a new attempt.
\* falha names the call that raises in this run, when one is made.
main_stop(falha) ==
    /\ UNCHANGED <<tables, writes, tx, sess, importador>>
    /\ \/ /\ conn_memo = "None"
          /\ UNCHANGED <<conn_memo, cache>>
          /\ out' = [page |-> "main", kind |-> "stop", passo |-> "conectar_db",
                     tentou |-> FALSE]
       \/ /\ conn_memo = "empty"
          /\ falha = "connect"
          /\ conn_memo' = "None"
          /\ UNCHANGED cache
          /\ out' = [page |-> "main", kind |-> "stop", passo |-> "conectar_db",
                     tentou |-> TRUE]
       \/ /\ conn_memo # "None"
          /\ cache.state = "None"
          /\ conn_memo' = "conn"
          /\ UNCHANGED cache
          /\ out' = [page |-> "main", kind |-> "stop",
                     passo |-> "carregar_todos_os_dados", tentou |-> FALSE]
       \/ /\ conn_memo # "None"
          /\ cache.state = "empty"
          /\ falha = "load"
          /\ conn_memo' = "conn"
          /\ cache' = [state |-> "None"]
          /\ out' = [page |-> "main", kind |-> "stop",
                     passo |-> "carregar_todos_os_dados", tentou |-> TRUE]

\* ------------------------------------------------------------ CRUD panel
\* str.upper() on the codes the forms are given
upper(codigo) ==
    CASE codigo = "aaa" -> "AAA"
      [] codigo = "xyz" -> "XYZ"
      [] OTHER -> codigo

\* A bug the statements could have: UPDATE and DELETE match on the full name
\* of the selected row instead of its id.
aplicar_por_nome(dr, comando) ==
    LET nomes == IF comando.tipo = "INSERT" THEN {}
                 ELSE {dr[i].driver_name : i \in {j \in DOMAIN dr :
                                                    dr[j].driverId = comando.id}}
    IN CASE comando.tipo = "INSERT" -> Append(dr, comando.row)
         [] comando.tipo = "UPDATE" ->
               [i \in DOMAIN dr |->
                   IF dr[i].driver_name \in nomes
                   THEN [dr[i] EXCEPT !.code = comando.codigo, !.number = comando.numero]
                   ELSE dr[i]]
         [] comando.tipo = "DELETE" ->
               SelectSeq(dr, LAMBDA d : d.driver_name \notin nomes)

\* the driver table after a statement ran: INSERT INTO tbl_pilotos ...,
\* UPDATE tbl_pilotos SET codigo, numero WHERE id_piloto = id, DELETE FROM
\* tbl_pilotos WHERE id_piloto = id
aplicar(dr, comando) ==
    CASE comando.tipo = "INSERT" -> Append(dr, comando.row)
      [] comando.tipo = "UPDATE" ->
            [i \in DOMAIN dr |->
                IF dr[i].driverId = comando.id
                THEN [dr[i] EXCEPT !.code = comando.codigo, !.number = comando.numero]
                ELSE dr[i]]
      [] comando.tipo = "DELETE" -> SelectSeq(dr, LAMBDA d : d.driverId # comando.id)

\* A bug the helper could have: the except branch does not roll back.
executar_comando_sql_sem_rollback(dr, comando, falha) ==
    IF falha = "none"
    THEN [retorno |-> TRUE, executed |-> TRUE, committed |-> TRUE, rolled_back |-> FALSE,
          cleared |-> TRUE, error |-> FALSE, tabela |-> aplicar(dr, comando)]
    ELSE [retorno |-> FALSE, executed |-> falha = "commit", committed |-> FALSE,
          rolled_back |-> FALSE, cleared |-> FALSE, error |-> TRUE, tabela |-> dr]

\* executar_comando_sql(conn, comando, params) on an established connection:
\* cur.execute and conn.commit may raise (falha names the call that does);
\* without an exception the statement is committed, the data cache is cleared
\* and True is returned; with one the transaction is rolled back, the error
\* is shown and False is returned.
executar_comando_sql(dr, comando, falha) ==
    IF falha = "none"
    THEN [retorno |-> TRUE, executed |-> TRUE, committed |-> TRUE, rolled_back |-> FALSE,
          cleared |-> TRUE, error |-> FALSE, tabela |-> aplicar(dr, comando)]
    ELSE [retorno |-> FALSE, executed |-> falha = "commit", committed |-> FALSE,
          rolled_back |-> TRUE, cleared |-> FALSE, error |-> TRUE, tabela |-> dr]

\* A bug the form could have: the code is not among the required fields.
todos_preenchidos_sem_codigo(campos) == campos.nome # "" /\ campos.demais

\* all([nome, sobrenome, ref_piloto, data_nascimento, nacionalidade, codigo]):
\* campos.nome stands for nome and sobrenome, campos.demais for ref_piloto,
\* data_nascimento and nacionalidade
todos_preenchidos(campos) ==
    campos.nome # "" /\ campos.codigo # "" /\ campos.demais

\* SELECT MAX(id_piloto) FROM tbl_pilotos; novo_id = (max_id or 0) + 1
novo_id(dr) == IF dr = <<>> THEN 1 ELSE Max({dr[i].driverId : i \in DOMAIN dr}) + 1

\* The 'Adicionar Piloto' form.  campos: nome (the full name), codigo, numero
\* and demais (whether ref_piloto, data_nascimento and nacionalidade are all
\* filled in).  The form commits by itself and does not clear the data cache;
\* st.rerun() leaves the try block without entering 'except Exception'.
form_create(campos, falha) ==
    /\ writes < MaxWrites
    /\ UNCHANGED <<races, results, driver_standings, constructor_standings, qualifying>>
    /\ UNCHANGED <<conexoes, importador>>
    /\ IF ~ todos_preenchidos(campos)
       THEN /\ out' = [page |-> "gerenciamento", op |-> "create", kind |-> "warning"]
            /\ UNCHANGED <<drivers, cache, writes>>
       ELSE LET comando ==
                    [tipo |-> "INSERT",
                     row |-> [driverId |-> novo_id(drivers), driver_name |-> campos.nome,
                              code |-> upper(campos.codigo), number |-> campos.numero]]
            IN /\ drivers' = IF falha = "none" THEN aplicar(drivers, comando) ELSE drivers
               /\ writes' = IF falha = "none" THEN writes + 1 ELSE writes
               /\ UNCHANGED cache
               /\ out' = [page |-> "gerenciamento", op |-> "create",
                          kind |-> IF falha = "none" THEN "success" ELSE "error",
                          comando |-> comando,
                          executed |-> falha \in {"none", "commit"},
                          committed |-> falha = "none",
                          rolled_back |-> falha # "none"]

\* what a tab shows after executar_comando_sql returned r
resultado_comando(op, comando, r) ==
    [page |-> "gerenciamento", op |-> op,
     kind |-> IF r.retorno THEN "success" ELSE "error",
     comando |-> comando, executed |-> r.executed, committed |-> r.committed,
     rolled_back |-> r.rolled_back, retorno |-> r.retorno]

\* the row a tab works on: the first row of pilotos_df_completo with the
\* selected full name; the query orders by surname only, so any row of that
\* name may be the first
selecionaveis(nome) == {i \in DOMAIN drivers : drivers[i].driver_name = nome}

\* tab 'Atualizar Piloto', button 'Salvar Alteracoes'
tab_update(piloto_selecionado_nome, novo_codigo, novo_numero, falha) ==
    /\ writes < MaxWrites
    /\ UNCHANGED <<races, results, driver_standings, constructor_standings, qualifying>>
    /\ UNCHANGED <<conexoes, importador>>
    /\ \E i \in selecionaveis(piloto_selecionado_nome) :
          LET comando == [tipo |-> "UPDATE", id |-> drivers[i].driverId,
                          codigo |-> upper(novo_codigo), numero |-> novo_numero]
              r == executar_comando_sql(drivers, comando, falha)
          IN /\ drivers' = r.tabela
             /\ writes' = IF r.committed THEN writes + 1 ELSE writes
             /\ cache' = IF r.cleared THEN EmptyCache ELSE cache
             /\ out' = resultado_comando("update", comando, r)

\* tab 'Deletar Piloto', button 'DELETAR PERMANENTEMENTE'
tab_delete(piloto_para_deletar, falha) ==
    /\ writes < MaxWrites
    /\ UNCHANGED <<races, results, driver_standings, constructor_standings, qualifying>>
    /\ UNCHANGED <<conexoes, importador>>
    /\ \E i \in selecionaveis(piloto_para_deletar) :
          LET comando == [tipo |-> "DELETE", id |-> drivers[i].driverId]
              r == executar_comando_sql(drivers, comando, falha)
          IN /\ drivers' = r.tabela
             /\ writes' = IF r.committed THEN writes + 1 ELSE writes
             /\ cache' = IF r.cleared THEN EmptyCache ELSE cache
             /\ out' = resultado_comando("delete", comando, r)

\* ------------------------------------- CRUD panel, concurrent sessions
\* Every session runs its script in a thread of the one server process and is
\* handed the connection object conectar_db memoised; a psycopg2 connection
\* has one transaction, so the statements the sessions execute join the same
\* open transaction, conn.commit() commits all of it and conn.rollback()
\* discards all of it.  A statement the server rejects leaves the transaction
\* aborted: until the rollback every statement on the connection raises, and
\* a commit ends the transaction without committing and without raising.
RECURSIVE aplicar_todos(_, _)
aplicar_todos(dr, stmts) ==
    IF stmts = <<>> THEN dr
    ELSE aplicar_todos(aplicar(dr, Head(stmts).comando), Tail(stmts))

\* the driver table as a read on the shared connection sees it: with the
\* statements pending in the connection's transaction
visivel == aplicar_todos(drivers, tx.stmts)

\* A write request up to the statement's parameters: the create form reads
\* MAX(id_piloto) inside its try block, the update and delete tabs take the id
\* of a row with the selected name from the table read at the top of the run.
sessao_le(s, op, nome) ==
    /\ sess[s].pc = "idle"
    /\ writes + Cardinality({t \in Sessions : sess[t].pc # "idle"}) < MaxWrites
    /\ UNCHANGED <<tables, writes, cache, conn_memo, tx, importador>>
    /\ IF tx.aborted
       THEN IF op = "create"
            THEN /\ sess' = [sess EXCEPT ![s] = [pc |-> "falhou", op |-> op]]
                 /\ UNCHANGED out
            ELSE /\ out' = [page |-> "gerenciamento", op |-> op, kind |-> "error",
                            sessao |-> s, passo |-> "read"]
                 /\ UNCHANGED sess
       ELSE /\ UNCHANGED out
            /\ \/ /\ op = "create"
                  /\ novo_id(visivel) <= MaxId
                  /\ sess' = [sess EXCEPT ![s] =
                        [pc |-> "lido", op |-> op,
                         comando |-> [tipo |-> "INSERT",
                             row |-> [driverId |-> novo_id(visivel), driver_name |-> nome,
                                      code |-> upper("aaa"), number |-> NaN]]]]
               \/ /\ op = "update"
                  /\ \E i \in DOMAIN visivel :
                        /\ visivel[i].driver_name = nome
                        /\ sess' = [sess EXCEPT ![s] =
                              [pc |-> "lido", op |-> op,
                               comando |-> [tipo |-> "UPDATE", id |-> visivel[i].driverId,
                                            codigo |-> upper("xyz"), numero |-> 7]]]
               \/ /\ op = "delete"
                  /\ \E i \in DOMAIN visivel :
                        /\ visivel[i].driver_name = nome
                        /\ sess' = [sess EXCEPT ![s] =
                              [pc |-> "lido", op |-> op,
                               comando |-> [tipo |-> "DELETE", id |-> visivel[i].driverId]]]

\* A data store without the unique index: no INSERT is rejected for its id.
chave_duplicada_nunca(dr, comando) == FALSE

\* The unique index on tbl_pilotos.id_piloto, which the importer's
\* 'ON CONFLICT (id_piloto)' names as its arbiter: an INSERT whose id is in
\* the table, as the inserting transaction sees it, is rejected.
chave_duplicada(dr, comando) ==
    /\ comando.tipo = "INSERT"
    /\ \E i \in DOMAIN dr : dr[i].driverId = comando.row.driverId

\* cursor.execute(query, params): the statement joins the open transaction,
\* or raises (falha = "execute", or a duplicate id: the server rejects it)
sessao_execute(s, falha) ==
    /\ sess[s].pc = "lido"
    /\ UNCHANGED <<tables, writes, cache, conn_memo, out, importador>>
    /\ IF tx.aborted \/ falha = "execute" \/ chave_duplicada(visivel, sess[s].comando)
       THEN /\ tx' = [tx EXCEPT !.aborted = TRUE]
            /\ sess' = [sess EXCEPT ![s].pc = "falhou"]
       ELSE /\ tx' = [tx EXCEPT !.stmts = Append(@, [sessao |-> s, comando |-> sess[s].comando])]
            /\ sess' = [sess EXCEPT ![s].pc = "executado"]

\* conn.commit() and what follows it: st.cache_data.clear() in
\* executar_comando_sql, then st.success and st.rerun()
sessao_commit(s, falha) ==
    /\ sess[s].pc = "executado"
    /\ UNCHANGED <<races, results, driver_standings, constructor_standings, qualifying>>
    /\ UNCHANGED <<conn_memo, importador>>
    /\ IF falha = "commit"
       THEN /\ sess' = [sess EXCEPT ![s].pc = "falhou"]
            /\ UNCHANGED <<drivers, writes, cache, tx, out>>
       ELSE /\ drivers' = IF tx.aborted THEN drivers ELSE visivel
            /\ writes' = IF tx.aborted THEN writes ELSE writes + Len(tx.stmts)
            /\ tx' = EmptyTx
            /\ cache' = IF sess[s].op = "create" THEN cache ELSE EmptyCache
            /\ sess' = [sess EXCEPT ![s] = [pc |-> "idle"]]
            /\ out' = [page |-> "gerenciamento", op |-> sess[s].op, kind |-> "success",
                       sessao |-> s, passo |-> "commit"]

\* except Exception: conn.rollback(), st.error
sessao_rollback(s) ==
    /\ sess[s].pc = "falhou"
    /\ UNCHANGED <<tables, writes, cache, conn_memo, importador>>
    /\ tx' = EmptyTx
    /\ sess' = [sess EXCEPT ![s] = [pc |-> "idle"]]
    /\ out' = [page |-> "gerenciamento", op |-> sess[s].op, kind |-> "error",
               sessao |-> s, passo |-> "rollback"]

\* ---------------------------------------------------------- importar_dados
\* the tables in the order importar_dados fills them
Ordem == <<"status", "circuitos", "pilotos", "construtores", "corridas", "resultados">>
TblNames == {Ordem[i] : i \in DOMAIN Ordem}

\* A bug the inserts could have: ON CONFLICT (key) DO UPDATE, the row of the
\* file replaces the row of the table.
inserir_atualiza(tabela, linhas) ==
    {e \in tabela : ~ \E r \in linhas : r.id = e.id} \cup linhas

\* INSERT ... ON CONFLICT (key) DO NOTHING for every row of a file: a row whose
\* key is in the table is skipped
inserir(tabela, linhas) ==
    tabela \cup {r \in linhas : ~ \E e \in tabela : e.id = r.id}

\* The number of tables whose loop ran to its end.  falha.passo names the
\* call that raises in the run: "none", "commit" (conn.commit()), "read"
\* (pd.read_csv in the block of table falha.k) or "insert" (the insert of the
\* row with key falha.id in the block of table falha.k: a foreign key, a value
\* int() rejects, the connection).
processadas(falha) ==
    IF falha.passo \in {"none", "commit"} THEN Len(Ordem) ELSE falha.k - 1

\* the rows whose INSERT was executed in the run's transaction
executadas(csv, falha) ==
    [t \in TblNames |->
        LET k == CHOOSE i \in DOMAIN Ordem : Ordem[i] = t
        IN IF k <= processadas(falha) THEN csv[t]
           ELSE IF k = processadas(falha) + 1 /\ falha.passo = "insert"
                THEN {r \in csv[t] : r.id # falha.id}
                ELSE {}]

\* A bug the importer could have: the except branch does not roll back and
\* the executed inserts are committed when the connection is closed.
apos_importar_sem_rollback(tabelas, csv, falha) ==
    [t \in TblNames |-> inserir(tabelas[t], executadas(csv, falha)[t])]

\* the tables after a run: conn.commit() is the last statement of the try
\* block, and the except branch rolls the transaction back
apos_importar(tabelas, csv, falha) ==
    IF falha.passo = "none"
    THEN [t \in TblNames |-> inserir(tabelas[t], executadas(csv, falha)[t])]
    ELSE tabelas

\* One run of importar_dados on its own connection.  csv holds the rows of the
\* six files.  The cursor is closed in the finally block.
importar_dados(csv, falha) ==
    /\ falha.passo = "insert" => \E r \in csv[Ordem[falha.k]] : r.id = falha.id
    /\ tbl' = apos_importar(tbl, csv, falha)
    /\ imp' = [kind |-> IF falha.passo = "none" THEN "concluida" ELSE "erro",
               csv |-> csv,
               processadas |-> processadas(falha),
               executadas |-> executadas(csv, falha),
               commit_chamado |-> falha.passo \in {"none", "commit"},
               commits |-> IF falha.passo = "none" THEN 1 ELSE 0,
               rolled_back |-> falha.passo # "none",
               cursor |-> "closed"]
    /\ UNCHANGED <<tables, writes, cache, out, conexoes>>

\* ttl=60: the memoised return value of the loader expires
cache_expira ==
    /\ cache.state # "empty"
    /\ cache' = EmptyCache
    /\ UNCHANGED <<tables, writes, out, conexoes, importador>>

\* --------------------------------------------------------- bounded inputs
NoOut == [page |-> "none", kind |-> "none"]

\* a process that has just started: no memoised connection, no session in a
\* write request, no import run so far
InitProcesso ==
    /\ conn_memo = "empty"
    /\ tx = EmptyTx
    /\ sess = [s \in Sessions |-> [pc |-> "idle"]]
    /\ tbl = [t \in TblNames |-> {}]
    /\ imp = [kind |-> "none"]

Absent == <<>>

\* a qualifying table in which every entry started where it qualified
QualifyingDoGrid(rs) ==
    {[raceId |-> r.raceId, driverId |-> r.driverId, position |-> r.grid] : r \in rs}

\* a results table from a choice, per (race, driver), of no entry or of an
\* entry <<constructorId, points, position>>: at most one entry per
\* (race, driver); each driver starts from the grid slot of their id
ResultsOf(f) ==
    {[raceId |-> k[1], driverId |-> k[2], constructorId |-> f[k][1],
      grid |-> k[2], points |-> f[k][2], position |-> f[k][3],
      status |-> IF f[k][3] = NaN THEN "Engine" ELSE "Finished"] :
        k \in {x \in DOMAIN f : f[x] # Absent}}

\* a races table from a choice of <<year, round>> per race id
\* on circuit 1
RacesOf(g) ==
    {[raceId |-> i, year |-> g[i][1], round |-> g[i][2], circuitId |-> 1] : i \in DOMAIN g}

TwoDrivers ==
    << [driverId |-> 1, driver_name |-> "a", code |-> "AAA", number |-> NaN],
       [driverId |-> 2, driver_name |-> "b", code |-> "BBB", number |-> NaN] >>

\* ------------------------------------------------ specification: SpecHall
\* The championship aggregation on every bounded results table: years and
\* points vary, the columns the aggregation does not read are fixed.
InitHall ==
    /\ \E g \in [RaceIds -> Years \X Rounds] :
          /\ \A i \in RaceIds : g[i][2] = i
          /\ races = RacesOf(g)
    /\ \E f \in [RaceIds \X DriverIds ->
                    {Absent} \cup (ConstructorIds \X (0..MaxPoints) \X {NaN})] :
          results = ResultsOf(f)
    /\ drivers = TwoDrivers
    /\ driver_standings = {}
    /\ constructor_standings = {}
    /\ cache = EmptyCache
    /\ writes = 0
    /\ out = NoOut
    /\ qualifying = QualifyingDoGrid(results)
    /\ InitProcesso

NextHall ==
    \/ main("Hall da Fama", <<>>)
    \/ \E n \in DriverNames \cup {NoSelection} : main("Analise de Pilotos", <<n>>)

SpecHall == InitHall /\ [][NextHall]_vars

\* ----------------------------------------------- specification: SpecVisao
\* a standings table from a choice, per (race, competitor), of no row or of a
\* row <<points, position>>
StandingsOf(h) ==
    {[raceId |-> k[1], driverId |-> k[2], points |-> h[k][1], position |-> h[k][2]] :
        k \in {x \in DOMAIN h : h[x] # Absent}}

StandingPositions == {1, 2}
RowCounts == {0, 1, 2}

\* The season overview on every bounded data set of two races, two drivers,
\* up to two result rows (a win or no classification) and up to two stored
\* standings rows.  Race 1 is in
\* season 2020 (the seasons are interchangeable), the two races have distinct
\* rounds in either order, every driver drives for the constructor of the same
\* id and the constructor standings repeat the driver standings.
InitVisao ==
    /\ \E g \in [RaceIds -> Years \X Rounds] :
          /\ g[1][1] = 2020
          /\ g[1][2] # g[2][2]
          /\ races = RacesOf(g)
    /\ \E f \in [RaceIds \X DriverIds ->
                    {Absent} \cup ({0} \X (0..MaxPoints) \X {NaN, 1})] :
          /\ Cardinality({k \in DOMAIN f : f[k] # Absent}) \in RowCounts
          /\ results = {[r EXCEPT !.constructorId = r.driverId] : r \in ResultsOf(f)}
    /\ \E h \in [RaceIds \X DriverIds ->
                    {Absent} \cup ((0..MaxPoints) \X StandingPositions)] :
          /\ Cardinality({k \in DOMAIN h : h[k] # Absent}) \in RowCounts
          /\ driver_standings = StandingsOf(h)
          /\ constructor_standings =
                {[raceId |-> s.raceId, constructorId |-> s.driverId,
                  points |-> s.points, position |-> s.position] : s \in StandingsOf(h)}
    /\ drivers = TwoDrivers
    /\ cache = EmptyCache
    /\ writes = 0
    /\ out = NoOut
    /\ qualifying = QualifyingDoGrid(results)
    /\ InitProcesso

NextVisao == \E ano \in Years : main("Visao Geral", <<ano>>)

SpecVisao == InitVisao /\ [][NextVisao]_vars

\* ------------------------------------------------ specification: SpecPoles
\* Pole counts on every bounded data set of two races with both drivers
\* entered: per race, which driver started from grid slot 1, and which driver
\* set the fastest qualifying time (0: the race has no qualifying rows).  A
\* grid penalty makes the two differ.
InitPoles ==
    /\ races = {[raceId |-> 1, year |-> 2020, round |-> 1, circuitId |-> 1],
                [raceId |-> 2, year |-> 2020, round |-> 2, circuitId |-> 1]}
    /\ drivers = << [driverId |-> 1, driver_name |-> "a", code |-> "AAA", number |-> NaN],
                    [driverId |-> 2, driver_name |-> "b", code |-> "BBB", number |-> NaN] >>
    /\ \E largada \in [RaceIds -> DriverIds], vencedor \in [RaceIds -> DriverIds] :
          results = {[raceId |-> k[1], driverId |-> k[2], constructorId |-> k[2],
                      grid |-> IF largada[k[1]] = k[2] THEN 1 ELSE 2,
                      points |-> 0,
                      position |-> IF vencedor[k[1]] = k[2] THEN 1 ELSE 2,
                      status |-> "Finished"] : k \in RaceIds \X DriverIds}
    /\ \E mais_rapido \in [RaceIds -> DriverIds \cup {0}] :
          qualifying = {[raceId |-> k[1], driverId |-> k[2],
                         position |-> IF mais_rapido[k[1]] = k[2] THEN 1 ELSE 2] :
                            k \in {x \in RaceIds \X DriverIds : mais_rapido[x[1]] # 0}}
    /\ driver_standings = {}
    /\ constructor_standings = {}
    /\ cache = [state |-> "empty"]
    /\ writes = 0
    /\ out = [page |-> "none", kind |-> "none"]
    /\ conn_memo = "empty"
    /\ tx = [stmts |-> <<>>, aborted |-> FALSE]
    /\ sess = [s \in Sessions |-> [pc |-> "idle"]]
    /\ tbl = [t \in TblNames |-> {}]
    /\ imp = [kind |-> "none"]

NextPoles ==
    \/ \E n \in DriverNames \cup {NoSelection} : main("Analise de Pilotos", <<n>>)
    \/ \E n1 \in DriverNames \cup {NoSelection}, n2 \in DriverNames \cup {NoSelection} :
          main("H2H", <<n1, n2>>)

SpecPoles == InitPoles /\ [][NextPoles]_vars

\* ------------------------------------------------- specification: SpecH2H
TwoRaces ==
    {[raceId |-> 1, year |-> 2020, round |-> 1, circuitId |-> 1],
     [raceId |-> 2, year |-> 2020, round |-> 2, circuitId |-> 1]}

\* Head-to-head on every bounded data set: two drivers whose names may be
\* equal, in either table order, and per (race, driver) no entry or an entry
\* with a finishing position in 1..MaxPosition or NaN.
InitH2H ==
    /\ races = TwoRaces
    /\ \E f \in [RaceIds \X DriverIds ->
                    {Absent} \cup ({0} \X {0} \X ({NaN} \cup (1..MaxPosition)))] :
          results = {[r EXCEPT !.constructorId = r.driverId] : r \in ResultsOf(f)}
    /\ \E n \in [DriverIds -> DriverNames], first \in DriverIds :
          drivers = [i \in 1..2 |->
                        LET d == IF i = 1 THEN first ELSE CHOOSE x \in DriverIds : x # first
                        IN [driverId |-> d, driver_name |-> n[d],
                            code |-> "AAA", number |-> NaN]]
    /\ driver_standings = {}
    /\ constructor_standings = {}
    /\ cache = EmptyCache
    /\ writes = 0
    /\ out = NoOut
    /\ qualifying = QualifyingDoGrid(results)
    /\ InitProcesso

NextH2H ==
    \E n1 \in DriverNames \cup {NoSelection}, n2 \in DriverNames \cup {NoSelection} :
        main("H2H", <<n1, n2>>)

SpecH2H == InitH2H /\ [][NextH2H]_vars

\* -------------------------------------------- specification: SpecCarreira
\* what an entry may hold: no classification (a retirement), a win, a third
\* or fourth place on the lead lap or lapped, or a fourth place of a driver
\* who retired late and is still classified
EntradasCarreira ==
    {<<NaN, "Engine">>, <<1, "Finished">>, <<4, "Engine">>}
        \cup ({3, 4} \X (Statuses \ {"Engine"}))

\* The two dossiers on every bounded results table of two races and two
\* drivers with at most one entry per (race, driver); driver 1 drives for
\* constructor 1, driver 2 for either constructor.
InitCarreira ==
    /\ races = TwoRaces
    /\ \E f \in [RaceIds \X DriverIds -> {Absent} \cup EntradasCarreira],
          c2 \in ConstructorIds :
          results =
              {[raceId |-> k[1], driverId |-> k[2],
                constructorId |-> IF k[2] = 1 THEN 1 ELSE c2,
                grid |-> k[2], points |-> 0, position |-> f[k][1],
                status |-> f[k][2]] :
                  k \in {x \in DOMAIN f : f[x] # Absent}}
    /\ drivers = TwoDrivers
    /\ driver_standings = {}
    /\ constructor_standings = {}
    /\ cache = EmptyCache
    /\ writes = 0
    /\ out = NoOut
    /\ qualifying = QualifyingDoGrid(results)
    /\ InitProcesso

NextCarreira ==
    \/ \E n \in DriverNames \cup {NoSelection} : main("Analise de Pilotos", <<n>>)
    \/ \E c \in ConstructorIds \cup {0} : main("Analise de Construtores", <<c>>)

SpecCarreira == InitCarreira /\ [][NextCarreira]_vars

\* ---------------------------------------------------- specification: Spec
\* The dashboard and the CRUD panel on one data set: two drivers, two races of
\* season 2020, driver 2 ahead of driver 1 on points, stored standings that
\* agree with the results.  The panel commits at most MaxWrites statements.
Init ==
    /\ races = TwoRaces
    /\ results =
          {[raceId |-> 1, driverId |-> 1, constructorId |-> 1, points |-> 2, position |-> 1,
            grid |-> 1, status |-> "Finished"],
           [raceId |-> 1, driverId |-> 2, constructorId |-> 2, points |-> 1, position |-> 2,
            grid |-> 2, status |-> "Finished"],
           [raceId |-> 2, driverId |-> 2, constructorId |-> 2, points |-> 2, position |-> 1,
            grid |-> 2, status |-> "Finished"]}
    /\ drivers = TwoDrivers
    /\ driver_standings =
          {[raceId |-> 1, driverId |-> 1, points |-> 2, position |-> 1],
           [raceId |-> 1, driverId |-> 2, points |-> 1, position |-> 2],
           [raceId |-> 2, driverId |-> 1, points |-> 2, position |-> 2],
           [raceId |-> 2, driverId |-> 2, points |-> 3, position |-> 1]}
    /\ constructor_standings =
          {[raceId |-> 1, constructorId |-> 1, points |-> 2, position |-> 1],
           [raceId |-> 1, constructorId |-> 2, points |-> 1, position |-> 2],
           [raceId |-> 2, constructorId |-> 1, points |-> 2, position |-> 2],
           [raceId |-> 2, constructorId |-> 2, points |-> 3, position |-> 1]}
    /\ cache = EmptyCache
    /\ writes = 0
    /\ out = NoOut
    /\ qualifying = QualifyingDoGrid(results)
    /\ InitProcesso

Falhas == {"none", "execute", "commit"}

Next ==
    \/ \E ano \in Years : main("Visao Geral", <<ano>>)
    \/ \E n \in DriverNames \cup {NoSelection} : main("Analise de Pilotos", <<n>>)
    \/ \E c \in ConstructorIds \cup {0} : main("Analise de Construtores", <<c>>)
    \/ \E n \in CircuitNames \cup {NoSelection} : main("Analise de Circuitos", <<n>>)
    \/ \E n1 \in DriverNames \cup {NoSelection}, n2 \in DriverNames \cup {NoSelection} :
          main("H2H", <<n1, n2>>)
    \/ main("Hall da Fama", <<>>)
    \/ \E falha \in {"connect", "load"} : main_stop(falha)
    \/ cache_expira
    \/ \E nome \in DriverNames \cup {""}, codigo \in {"aaa", ""}, demais \in BOOLEAN,
          falha \in Falhas :
          form_create([nome |-> nome, codigo |-> codigo, numero |-> NaN,
                       demais |-> demais], falha)
    \/ \E n \in DriverNames, falha \in Falhas : tab_update(n, "xyz", 7, falha)
    \/ \E n \in DriverNames, falha \in Falhas : tab_delete(n, falha)

Spec == Init /\ [][Next]_vars

\* ------------------------------------------------- specification: SpecMain
\* What the program started from main can do.  A menu with the CRUD panel
\* among its options:
options_com_gerenciamento ==
    {"Visao Geral", "Analise de Pilotos", "Analise de Construtores",
     "Analise de Circuitos", "H2H", "Hall da Fama", "Gerenciamento"}

\* the options of option_menu, which are the keys of page_map
options ==
    {"Visao Geral", "Analise de Pilotos", "Analise de Construtores",
     "Analise de Circuitos", "H2H", "Hall da Fama"}

\* One script run for a menu option, with any selection on the page.
\* render_pagina_gerenciamento is defined but is no value of page_map and is
\* called nowhere: its handlers run only for an option the menu does not
\* have.
script_run(app_page) ==
    CASE app_page = "Visao Geral" -> \E ano \in Years : main(app_page, <<ano>>)
      [] app_page = "Analise de Pilotos" ->
            \E n \in DriverNames \cup {NoSelection} : main(app_page, <<n>>)
      [] app_page = "Analise de Construtores" ->
            \E c \in ConstructorIds \cup {0} : main(app_page, <<c>>)
      [] app_page = "Analise de Circuitos" ->
            \E n \in CircuitNames \cup {NoSelection} : main(app_page, <<n>>)
      [] app_page = "H2H" ->
            \E n1 \in DriverNames \cup {NoSelection},
               n2 \in DriverNames \cup {NoSelection} : main(app_page, <<n1, n2>>)
      [] app_page = "Hall da Fama" -> main(app_page, <<>>)
      [] app_page = "Gerenciamento" ->
            /\ prossegue(conn_memo)
            /\ \/ \E nome \in DriverNames \cup {""}, codigo \in {"aaa", ""},
                     demais \in BOOLEAN, falha \in Falhas :
                      form_create([nome |-> nome, codigo |-> codigo, numero |-> NaN,
                                   demais |-> demais], falha)
               \/ \E n \in DriverNames, falha \in Falhas : tab_update(n, "xyz", 7, falha)
               \/ \E n \in DriverNames, falha \in Falhas : tab_delete(n, falha)

\* the data set of Init with the two drivers under any names, equal names
\* included, in either table order
InitMain ==
    /\ races = TwoRaces
    /\ results =
          {[raceId |-> 1, driverId |-> 1, constructorId |-> 1, points |-> 2, position |-> 1,
            grid |-> 1, status |-> "Finished"],
           [raceId |-> 1, driverId |-> 2, constructorId |-> 2, points |-> 1, position |-> 2,
            grid |-> 2, status |-> "Finished"],
           [raceId |-> 2, driverId |-> 2, constructorId |-> 2, points |-> 2, position |-> 1,
            grid |-> 2, status |-> "Finished"]}
    /\ \E n \in [DriverIds -> DriverNames], first \in DriverIds :
          drivers = [i \in 1..2 |->
                        LET d == IF i = 1 THEN first ELSE CHOOSE x \in DriverIds : x # first
                        IN [driverId |-> d, driver_name |-> n[d],
                            code |-> IF d = 1 THEN "AAA" ELSE "BBB", number |-> NaN]]
    /\ driver_standings =
          {[raceId |-> 1, driverId |-> 1, points |-> 2, position |-> 1],
           [raceId |-> 1, driverId |-> 2, points |-> 1, position |-> 2],
           [raceId |-> 2, driverId |-> 1, points |-> 2, position |-> 2],
           [raceId |-> 2, driverId |-> 2, points |-> 3, position |-> 1]}
    /\ constructor_standings =
          {[raceId |-> 1, constructorId |-> 1, points |-> 2, position |-> 1],
           [raceId |-> 1, constructorId |-> 2, points |-> 1, position |-> 2],
           [raceId |-> 2, constructorId |-> 1, points |-> 2, position |-> 2],
           [raceId |-> 2, constructorId |-> 2, points |-> 3, position |-> 1]}
    /\ cache = EmptyCache
    /\ writes = 0
    /\ out = NoOut
    /\ qualifying = QualifyingDoGrid(results)
    /\ InitProcesso

NextMain ==
    \/ \E app_page \in options : script_run(app_page)
    \/ \E falha \in {"connect", "load"} : main_stop(falha)
    \/ cache_expira

SpecMain == InitMain /\ [][NextMain]_vars

\* ------------------------------------------------ specification: SpecConc
\* Two sessions use the CRUD panel at the same time on the data set of Init;
\* the steps of their write requests interleave.
NextConc ==
    \E s \in Sessions :
        \/ \E op \in {"create", "update", "delete"}, nome \in DriverNames :
              sessao_le(s, op, nome)
        \/ \E falha \in {"none", "execute"} : sessao_execute(s, falha)
        \/ \E falha \in {"none", "commit"} : sessao_commit(s, falha)
        \/ sessao_rollback(s)

SpecConc == Init /\ [][NextConc]_vars

\* ------------------------------------------------- specification: SpecImp
CsvIds == {1, 2}

\* the files of one run: every file holds the rows with the ids of one set
CsvDe(ids) == [t \in TblNames |-> {[id |-> i, v |-> "csv"] : i \in ids}]

FalhasImp ==
    {[k |-> 0, passo |-> p, id |-> 0] : p \in {"none", "commit"}} \cup
    {[k |-> k, passo |-> "read", id |-> 0] : k \in DOMAIN Ordem} \cup
    {[k |-> k, passo |-> "insert", id |-> i] : k \in DOMAIN Ordem, i \in CsvIds}

\* The importer run repeatedly against a database in which every table is
\* empty or already holds a row with key 1 that did not come from the files.
InitImp ==
    /\ races = TwoRaces
    /\ results = {}
    /\ drivers = TwoDrivers
    /\ driver_standings = {}
    /\ constructor_standings = {}
    /\ cache = EmptyCache
    /\ writes = 0
    /\ out = NoOut
    /\ qualifying = {}
    /\ conn_memo = "empty"
    /\ tx = EmptyTx
    /\ sess = [s \in Sessions |-> [pc |-> "idle"]]
    /\ tbl \in [TblNames -> {{}, {[id |-> 1, v |-> "db"]}}]
    /\ imp = [kind |-> "none"]

NextImp ==
    \E ids \in SUBSET CsvIds \ {{}}, falha \in FalhasImp : importar_dados(CsvDe(ids), falha)

SpecImp == InitImp /\ [][NextImp]_vars

\* ------------------------------------------------------------- claims
\* C4: for every season with at least one entry in results_full the points
\* aggregation selects exactly one champion driver and exactly one champion
\* constructor, and the champion's season total is at least the season total
\* of every other competitor of that season.
C4_OneMaximalChampion ==
    /\ (out.page = "analise_pilotos" /\ out.kind = "ok") =>
          LET rf == results_full(results, races, drivers)
              total(y, d) == SumPoints({r \in rf : r.year = y /\ r.driverId = d})
          IN out.campeonatos_vencidos <=
                Cardinality({y \in {r.year : r \in rf} :
                    /\ \E r \in rf : r.year = y /\ r.driverId = out.id_piloto
                    /\ \A d \in DriverIds : total(y, out.id_piloto) >= total(y, d)})
    /\ out.page = "hall_da_fama" =>
        LET rf == results_full(results, races, drivers)
        IN \A y \in {r.year : r \in rf} :
            /\ Cardinality({c \in out.campeoes_pilotos : c.year = y}) = 1
            /\ Cardinality({c \in out.campeoes_construtores : c.year = y}) = 1
            /\ \A c \in out.campeoes_pilotos : c.year = y =>
                  /\ c.points = SumPoints({r \in rf : r.year = y /\ r.driverId = c.id})
                  /\ \A d \in DriverIds :
                        c.points >= SumPoints({r \in rf : r.year = y /\ r.driverId = d})
            /\ \A c \in out.campeoes_construtores : c.year = y =>
                  /\ c.points = SumPoints({r \in rf : r.year = y /\ r.constructorId = c.id})
                  /\ \A k \in ConstructorIds :
                        c.points >= SumPoints({r \in rf : r.year = y /\ r.constructorId = k})

\* C4 witness: the hall of fame was rendered for a season in which driver 2
\* outscored driver 1, who also scored, and driver 2 is the champion shown.
C4_Witness ==
    /\ out.page = "hall_da_fama"
    /\ \E c \in out.campeoes_pilotos :
          /\ c.id = 2
          /\ \E r \in results : r.driverId = 1 /\ r.points > 0
               /\ \E ra \in races : ra.raceId = r.raceId /\ ra.year = c.year
    /\ \E c \in out.campeoes_construtores : c.id = 2 /\ c.points > 0

\* C5: when two or more competitors share the maximal season total, the
\* champion computation reports all of them (the tie is flagged), not one
\* competitor picked by order.
C5_TieFlagged ==
    out.page = "hall_da_fama" =>
        LET rf == results_full(results, races, drivers)
            tab == pontos_por_ano_piloto(rf)
        IN \A y \in {r.year : r \in rf} :
              {c.id : c \in {x \in out.campeoes_pilotos : x.year = y}}
                  = {t.id : t \in {x \in tab : x.year = y /\
                                      \A o \in tab : o.year = y => o.points <= x.points}}

\* C6: for every season with at least one entry and every competitor, the
\* points the overview shows for the competitor at the season's final round
\* equal the plain sum of the competitor's result points over the season.
C6_FinalPointsAreSeasonSums ==
    (out.page = "visao_geral" /\ out.kind = "ok") =>
        LET rf == {r \in results_full(results, races, drivers) : r.year = out.ano}
        IN /\ \A t \in out.top_drivers :
                 t.points = SumPoints({r \in rf : r.driverId = t.driverId})
           /\ \A t \in out.top_constructors :
                 t.points = SumPoints({r \in rf : r.constructorId = t.constructorId})

\* C7: the race whose standings the overview uses as the season's final
\* standings is the race with the greatest round number of the season (among
\* the season's races that have standings), whatever the order of the race ids.
C7_FinalRaceHasGreatestRound ==
    (out.page = "visao_geral" /\ out.kind \in {"ok", "destaques"}) =>
        \A ra \in races, rb \in races :
            (/\ ra.raceId = out.id_ultima_corrida
             /\ rb.year = out.ano
             /\ \E s \in driver_standings : s.raceId = rb.raceId)
                => rb.round <= ra.round

\* C8: for a selected season without result entries the overview shows the
\* 'no data' warning and nothing else (no champion, no aggregate); the
\* warning is shown for no other season, and it is not an exception.
C8_EmptySeasonWarns ==
    out.page = "visao_geral" =>
        LET rf == {r \in results_full(results, races, drivers) : r.year = out.ano}
        IN /\ (rf = {}) <=> (out.kind = "warning")
           /\ out.kind = "warning" => DOMAIN out = {"page", "kind", "ano"}

\* C8 witness: the overview was rendered for a season that has a race and
\* standings rows but no result entry, and showed the warning.
C8_Witness ==
    /\ out.page = "visao_geral"
    /\ out.kind = "warning"
    /\ \E ra \in races : ra.year = out.ano
          /\ \E s \in driver_standings : s.raceId = ra.raceId /\ s.position = 1
    /\ \A r \in results : \A ra \in races : ra.raceId = r.raceId => ra.year # out.ano

\* C9: head-to-head is antisymmetric: the races with the first driver ahead
\* counted for (A,B) are as many as the races with the second driver ahead
\* counted for (B,A), and the number of races together is the same for both
\* orders.
C9_H2HAntisymmetric ==
    (out.page = "h2h" /\ out.kind = "ok") =>
        LET troca == h2h(drivers, results_full(results, races, drivers), qualifying,
                         out.piloto2_nome, out.piloto1_nome)
        IN /\ troca.kind = "ok"
           /\ troca.id1 = out.id2 /\ troca.id2 = out.id1
           /\ out.vantagem_corrida_p1 = troca.vantagem_corrida_p2
           /\ out.vantagem_corrida_p2 = troca.vantagem_corrida_p1
           /\ out.corridas = troca.corridas

\* C9 witness: a comparison was shown in which the first driver was ahead in
\* one common race and the two finished level in another.
C9_Witness ==
    /\ out.page = "h2h" /\ out.kind = "ok"
    /\ out.vantagem_corrida_p1 = 1
    /\ out.vantagem_corrida_p2 = 0
    /\ out.corridas = 2

\* C10: whenever both selections resolve to the same driver id, render_h2h
\* shows the warning and no comparison counts; counts are never shown for a
\* pair with id1 = id2.
C10_EqualCompetitorsRejected ==
    out.page = "h2h" =>
        /\ out.kind = "ok" => out.id1 # out.id2
        /\ (/\ out.piloto1_nome # NoSelection
            /\ out.piloto2_nome # NoSelection
            /\ rows_named(drivers, out.piloto1_nome)[1].driverId
                 = rows_named(drivers, out.piloto2_nome)[1].driverId)
              => (/\ out.kind = "warning"
                  /\ DOMAIN out = {"page", "kind", "piloto1_nome", "piloto2_nome"})

\* C10 witness: the same name was selected twice and the warning was shown,
\* in a table where that name belongs to a driver with common races to compare.
C10_Witness ==
    /\ out.page = "h2h" /\ out.kind = "warning"
    /\ out.piloto1_nome = out.piloto2_nome
    /\ \E r \in results : r.driverId = rows_named(drivers, out.piloto1_nome)[1].driverId

\* C1: after a successful create, update or delete of a driver row the cached
\* data set has been cleared when control returns to the user.
C1_CacheClearedAfterWrite ==
    (out.page = "gerenciamento" /\ out.kind = "success") => cache.state = "empty"

\* C2: every create, update or delete that reaches the data store ends in
\* exactly one of two outcomes: the statement was executed and committed and
\* success is reported (True is returned), the table then holding the
\* statement's effect; or an exception was caught, the transaction was rolled
\* back and not committed and an error is reported (False is returned), the
\* table then being as before.
C2_CommitOrRollback ==
    [][(/\ out' # out
        /\ out'.page = "gerenciamento"
        /\ out'.kind # "warning")
          => \/ /\ out'.kind = "success"
                /\ out'.op # "create" => out'.retorno
                /\ out'.executed /\ out'.committed /\ ~ out'.rolled_back
                /\ drivers' = aplicar(drivers, out'.comando)
                /\ writes' = writes + 1
             \/ /\ out'.kind = "error"
                /\ out'.op # "create" => ~ out'.retorno
                /\ ~ out'.committed /\ out'.rolled_back
                /\ drivers' = drivers
                /\ writes' = writes]_vars

\* C2 witness: an update whose commit raised ended with a rollback and an error
\* after an earlier delete had been committed.
C2_Witness ==
    /\ out.page = "gerenciamento"
    /\ out.op = "update"
    /\ out.kind = "error"
    /\ out.executed /\ out.rolled_back
    /\ writes = 1
    /\ Len(drivers) = 1

\* the aggregates of the historical data: per season the total points, the
\* champion, and the summed points of every driver
HistoricalAggregates(dr) ==
    LET rf == results_full(results, races, dr)
    IN [total |-> [y \in Years |-> SumPoints({r \in rf : r.year = y})],
        campeoes |-> indices_campeoes(pontos_por_ano_piloto(rf)),
        pontos |-> [y \in Years |-> [d \in DriverIds |->
                       SumPoints({r \in rf : r.year = y /\ r.driverId = d})]]]

CorridasComuns(a, b, Cond(_, _)) ==
    {ra \in RaceIds : \E e1 \in results, e2 \in results :
        /\ e1.raceId = ra /\ e2.raceId = ra
        /\ e1.driverId = a /\ e2.driverId = b
        /\ Cond(e1, e2)}

AmbosClassificados(e1, e2) == e1.position # NaN /\ e2.position # NaN

\* C11: the 'A ahead' count is the number of common races in which both
\* finishing positions are non-null and A's position is strictly less than
\* B's, and symmetrically for 'B ahead'; the two counts together never exceed
\* the number of common races both finished, so a race with a null position
\* adds to neither.
C11_AheadCountsClassifiedOnly ==
    (out.page = "h2h" /\ out.kind = "ok") =>
        LET frente1(e1, e2) == AmbosClassificados(e1, e2) /\ e1.position < e2.position
            frente2(e1, e2) == AmbosClassificados(e1, e2) /\ e2.position < e1.position
        IN /\ out.vantagem_corrida_p1 = Cardinality(CorridasComuns(out.id1, out.id2, frente1))
           /\ out.vantagem_corrida_p2 = Cardinality(CorridasComuns(out.id1, out.id2, frente2))
           /\ out.vantagem_corrida_p1 + out.vantagem_corrida_p2
                 <= Cardinality(CorridasComuns(out.id1, out.id2, AmbosClassificados))

\* C11 witness: a comparison in which the first driver was ahead in one race
\* and, in the other race, the first driver has a null position while the
\* second finished.
C11_Witness ==
    /\ out.page = "h2h" /\ out.kind = "ok"
    /\ out.vantagem_corrida_p1 = 1
    /\ out.vantagem_corrida_p2 = 0
    /\ \E e1 \in results, e2 \in results :
          /\ e1.raceId = e2.raceId
          /\ e1.driverId = out.id1 /\ e2.driverId = out.id2
          /\ e1.position = NaN /\ e2.position # NaN

\* C12: the number of races head-to-head reports for the pair counts every
\* race both drivers entered, also those in which one or both have a null
\* finishing position.
C12_TogetherCountsEveryCommonRace ==
    (out.page = "h2h" /\ out.kind = "ok") =>
        LET entrou(e1, e2) == TRUE
        IN out.corridas = Cardinality(CorridasComuns(out.id1, out.id2, entrou))

\* C14: after a connection or load failure the program reports the failure
\* and does not retry by itself, and a later invocation makes the attempt
\* again: no run stops on a failure result that an earlier run left behind.
C14_LaterRunTriesAgain ==
    [][(out'.page = "main" /\ out'.kind = "stop") => out'.tentou]_vars

\* the statements of session t that are executed and not yet committed
Pendentes(t) == SelectSeq(tx.stmts, LAMBDA e : e.sessao = t)

\* C13: concurrent sessions are independent: a step of one session (a write,
\* a commit, a rollback or a failure) leaves the in-progress write of every
\* other session as it was, neither committing it nor discarding it nor
\* making it fail.
C13_SessionsIndependent ==
    [][\A t \in Sessions :
          (sess'[t] = sess[t] /\ sess[t].pc = "executado")
              => (Pendentes(t)' = Pendentes(t) /\ tx'.aborted = tx.aborted)]_vars

\* C15: the importer is all-or-nothing: a run commits at most once, and it
\* commits exactly when all six tables were processed and nothing raised, the
\* tables then holding the rows of the files next to the rows they had;
\* when a read, an insert or the commit raises, the transaction is rolled
\* back and every table is as before the run; the cursor is closed on every
\* path.
C15_ImportAllOrNothing ==
    [][(imp' # imp \/ tbl' # tbl) =>
          /\ imp'.cursor = "closed"
          /\ imp'.commits \in {0, 1}
          /\ imp'.commits = 1 <=>
                (imp'.processadas = Len(Ordem) /\ imp'.commit_chamado /\ ~ imp'.rolled_back)
          /\ imp'.commits = 1 =>
                \A t \in TblNames :
                    /\ tbl[t] \subseteq tbl'[t]
                    /\ \A r \in imp'.csv[t] : \E e \in tbl'[t] : e.id = r.id
                    /\ tbl'[t] \subseteq tbl[t] \cup imp'.csv[t]
          /\ imp'.commits = 0 => (imp'.rolled_back /\ tbl' = tbl)]_vars

\* C15 witness: a run failed while inserting into the last table, after the
\* inserts of new rows into the five tables before it had been executed, and
\* none of those rows is in the tables.
C15_Witness ==
    /\ imp.kind = "erro"
    /\ imp.processadas = 5
    /\ imp.rolled_back /\ imp.cursor = "closed"
    /\ \E r \in imp.executadas["pilotos"] : r \notin tbl["pilotos"]
    /\ \E r \in imp.executadas["resultados"] : r \notin tbl["resultados"]

\* the entries of a competitor in the results table
EntradasPiloto(d) == {r \in results : r.driverId = d}
EntradasConstrutor(c) == {r \in results : r.constructorId = c}

\* the competitor and the entries a dossier outcome is about
EntradasDoDossie ==
    IF out.page = "analise_pilotos"
    THEN EntradasPiloto(out.id_piloto)
    ELSE EntradasConstrutor(out.id_construtor)

\* C16: in every dossier the wins are the entries with finishing position 1,
\* the podiums the entries with finishing position 1, 2 or 3 and the DNFs the
\* entries with a null finishing position; so wins <= podiums and
\* podiums + DNFs <= total entries.
C16_CareerCounts ==
    (out.page \in {"analise_pilotos", "analise_construtores"} /\ out.kind = "ok") =>
        LET e == EntradasDoDossie
        IN /\ out.total_vitorias = Cardinality({r \in e : r.position = 1})
           /\ out.total_podios =
                 Cardinality({r \in e : r.position = 1 \/ r.position = 2 \/ r.position = 3})
           /\ out.total_dnfs = Cardinality({r \in e : r.position = NaN})
           /\ out.total_vitorias <= out.total_podios
           /\ out.total_podios + out.total_dnfs <= Cardinality(e)

\* C16 witness: the dossier of a constructor with four entries: a win, a
\* third place, a fourth place and a retirement.
C16_Witness ==
    /\ out.page = "analise_construtores" /\ out.kind = "ok"
    /\ out.total_vitorias = 1
    /\ out.total_podios = 2
    /\ out.total_dnfs = 1
    /\ out.total_entradas = 4

\* C17: for every competitor there is a win rate, wins divided by total
\* entries, which lies between 0 and 1 and is 0 when the competitor has no
\* entries.
C17_WinRateDefined ==
    out.page = "hall_da_fama" =>
        \A d \in DriverIds :
            \E t \in out.perc_vitorias :
                /\ t.driverId = d
                /\ 0 <= t.vitorias /\ t.vitorias <= t.corridas
                /\ EntradasPiloto(d) = {} => t.vitorias = 0

\* C18: the reliability rate of a dossier is the number of the competitor's
\* entries whose status is a classified finish ("Finished" or a lapped
\* finish) divided by the number of its entries, and lies between 0 and 1.
C18_ReliabilityByStatus ==
    (out.page \in {"analise_pilotos", "analise_construtores"} /\ out.kind = "ok") =>
        LET e == EntradasDoDossie
            classificadas == {r \in e : r.status \in {"Finished", "+1 Lap"}}
        IN /\ out.confiabilidade.den > 0
           /\ out.confiabilidade.num * Cardinality(e)
                 = Cardinality(classificadas) * out.confiabilidade.den
           /\ 0 <= out.confiabilidade.num
           /\ out.confiabilidade.num <= out.confiabilidade.den

ComId(dr, id) == {i \in DOMAIN dr : dr[i].driverId = id}

\* C20: the UPDATE changes only code and number of the one driver row that
\* has the selected id, the DELETE removes only that row, and every other
\* driver row (and every other table) is as before; the id is that of a row
\* with the selected full name.  A statement that is not committed changes
\* nothing.
C20_WriteTouchesOnlySelectedRow ==
    [][/\ \A n \in DriverNames, falha \in Falhas :
            (out'.page = "gerenciamento" /\ tab_update(n, "xyz", 7, falha)) =>
                LET id == out'.comando.id
                IN /\ Cardinality(ComId(drivers, id)) = 1
                   /\ \A i \in ComId(drivers, id) : drivers[i].driver_name = n
                   /\ DOMAIN drivers' = DOMAIN drivers
                   /\ \A i \in DOMAIN drivers :
                         IF out'.committed /\ drivers[i].driverId = id
                         THEN /\ drivers'[i].driverId = id
                              /\ drivers'[i].driver_name = drivers[i].driver_name
                              /\ drivers'[i].code = "XYZ"
                              /\ drivers'[i].number = 7
                         ELSE drivers'[i] = drivers[i]
                   /\ UNCHANGED <<races, results, driver_standings,
                                  constructor_standings>>
       /\ \A n \in DriverNames, falha \in Falhas :
            (out'.page = "gerenciamento" /\ tab_delete(n, falha)) =>
                LET id == out'.comando.id
                IN /\ Cardinality(ComId(drivers, id)) = 1
                   /\ \A i \in ComId(drivers, id) : drivers[i].driver_name = n
                   /\ IF out'.committed
                      THEN /\ Len(drivers') = Len(drivers) - 1
                           /\ Range(drivers') =
                                 Range(drivers) \ {drivers[i] : i \in ComId(drivers, id)}
                      ELSE drivers' = drivers
                   /\ UNCHANGED <<races, results, driver_standings,
                                  constructor_standings>>]_vars

\* C20 witness: an update was committed for a driver whose full name another
\* driver row shares, and that other row still has its own code and number.
C20_Witness ==
    /\ out.page = "gerenciamento"
    /\ out.op = "update"
    /\ out.committed
    /\ \E i, j \in DOMAIN drivers :
          /\ i # j
          /\ drivers[i].driver_name = drivers[j].driver_name
          /\ drivers[i].driverId = out.comando.id
          /\ drivers[i].code = "XYZ" /\ drivers[i].number = 7
          /\ drivers[j].code # "XYZ" /\ drivers[j].number # 7

\* a script run of main that gets as far as a page, for any menu option and
\* selection (each page function leaves its own name in out)
PaginaAnalitica ==
    \/ /\ out'.page = "visao_geral"
       /\ \E ano \in Years : main("Visao Geral", <<ano>>)
    \/ /\ out'.page = "analise_pilotos"
       /\ \E n \in DriverNames \cup {NoSelection} : main("Analise de Pilotos", <<n>>)
    \/ /\ out'.page = "analise_construtores"
       /\ \E c \in ConstructorIds \cup {0} : main("Analise de Construtores", <<c>>)
    \/ /\ out'.page = "analise_circuitos"
       /\ \E n \in CircuitNames \cup {NoSelection} : main("Analise de Circuitos", <<n>>)
    \/ /\ out'.page = "h2h"
       /\ \E n1 \in DriverNames \cup {NoSelection},
              n2 \in DriverNames \cup {NoSelection} : main("H2H", <<n1, n2>>)
    \/ /\ out'.page = "hall_da_fama"
       /\ main("Hall da Fama", <<>>)

\* C21: the analytics pages are pure reads.  A run of any of the six pages
\* leaves every table as it was, executes no statement on the connection,
\* commits and rolls back nothing, and leaves the data cache filled.
C21_PagesArePureReads ==
    [][PaginaAnalitica =>
          /\ UNCHANGED <<tables, tx, writes>>
          /\ cache'.state = "data"
          /\ cache.state = "data" => cache' = cache]_vars

\* C21 witness: after a committed write, a page was rendered to the end from
\* a refilled cache, and the tables are as the write left them.
C21_Witness ==
    /\ out.page = "analise_circuitos"
    /\ out.kind = "ok"
    /\ writes > 0
    /\ cache.state = "data"
    /\ cache.data.drivers = drivers
    /\ tx = EmptyTx

\* the seasons in which the team holds position 1 in the constructor
\* standings of the season's final race
TemporadasCampeas(c) ==
    {y \in Years :
        \E ra \in races :
            /\ ra.year = y
            /\ \A rb \in races : rb.year = y => rb.round <= ra.round
            /\ \E s \in constructor_standings :
                  s.raceId = ra.raceId /\ s.constructorId = c /\ s.position = 1}

\* C22: the number of constructor championships the team dossier shows is
\* the number of seasons in which the team holds position 1 in the
\* constructor standings of the season's final race.
C22_ConstructorTitlesCounted ==
    (out.page = "analise_construtores" /\ out.kind = "ok") =>
        out.campeonatos_constr = Cardinality(TemporadasCampeas(out.id_construtor))

\* C23: every run connects, then loads, then renders.  A page is rendered
\* only in a run that has the connection and the data set; a run in which
\* conectar_db gives None stops without loading (the data cache is left as
\* it was); a run in which carregar_todos_os_dados gives None had the
\* connection and renders no page.
C23_ConnectLoadRender ==
    [][/\ PaginaAnalitica =>
            /\ conn_memo # "None" /\ cache.state # "None"
            /\ conn_memo' = "conn" /\ cache'.state = "data"
       /\ \A falha \in {"connect", "load"} :
            (out'.page = "main" /\ main_stop(falha)) =>
                /\ out'.page = "main" /\ out'.kind = "stop"
                /\ IF out'.passo = "conectar_db"
                   THEN conn_memo' = "None" /\ UNCHANGED cache
                   ELSE conn_memo' = "conn" /\ cache'.state = "None"]_vars

\* C23 witness: a run tried to connect, got None and stopped; no data set was
\* ever loaded.
C23_Witness ==
    /\ out.page = "main"
    /\ out.kind = "stop"
    /\ out.passo = "conectar_db"
    /\ out.tentou
    /\ conn_memo = "None"
    /\ cache.state = "empty"

\* the pole count the driver dossier shows for driver d
PolesNoDossie(d) ==
    total_poles({r \in results_full(results, races, drivers) : r.driverId = d})

\* the pole count head-to-head shows for driver d
PolesNoH2H(d) == poles(qualifying, d)

\* C24: the pole-position count of a driver is the same number on every page
\* that shows it.  Whatever page shows a count for a driver, the dossier's
\* count (entries with grid 1) and the head-to-head count (qualifying rows
\* with position 1) of that driver are that number.
C24_PoleCountsAgree ==
    /\ (out.page = "analise_pilotos" /\ out.kind = "ok") =>
            /\ out.total_poles = PolesNoDossie(out.id_piloto)
            /\ out.total_poles = PolesNoH2H(out.id_piloto)
    /\ (out.page = "h2h" /\ out.kind = "ok") =>
            /\ out.poles1 = PolesNoH2H(out.id1)
            /\ out.poles1 = PolesNoDossie(out.id1)

\* C25: the two champion derivations agree.  The driver champion the season
\* overview shows (position 1 in the stored driver standings of the season's
\* race with the highest raceId) is the driver the points aggregation of the
\* Hall of Fame and of the driver dossier selects for that season.
C25_ChampionDerivationsAgree ==
    (out.page = "visao_geral" /\ out.kind \in {"ok", "destaques"}) =>
        \E c \in indices_campeoes(
                    pontos_por_ano_piloto(results_full(results, races, drivers))) :
            c.year = out.ano /\ c.id = out.campeao_piloto

\* C26: for every season that passes the non-empty results check, the season
\* overview's champion lookup succeeds: no lookup indexes an empty selection,
\* so the overview never ends in an exception before the champions are shown.
C26_ChampionLookupSucceeds ==
    out.page = "visao_geral" => out.kind # "exception"

\* C27: driver ids assigned by the create form are unique.  A create request
\* takes an id greater than every id it could read, and for every
\* interleaving of the sessions' read-max, insert and commit steps no two
\* committed driver rows have the same id.
C27_CreatedIdsUnique ==
    [][/\ \A s \in Sessions :
            (sess[s].pc = "idle" /\ sess'[s].pc = "lido" /\ sess'[s].op = "create")
                => \A i \in DOMAIN visivel :
                      sess'[s].comando.row.driverId > visivel[i].driverId
       /\ \A i, j \in DOMAIN drivers' :
            i # j => drivers'[i].driverId # drivers'[j].driverId]_vars

\* C27 witness: two sessions read the same MAX(id_piloto) and built an INSERT
\* with the same new id; the first INSERT was executed and the second was
\* rejected.
C27_Witness ==
    \E s, t \in Sessions :
        /\ s # t
        /\ sess[s].pc = "executado" /\ sess[s].op = "create"
        /\ sess[t].pc = "falhou" /\ sess[t].op = "create"
        /\ sess[s].comando.row.driverId = sess[t].comando.row.driverId
        /\ tx.aborted

\* a run in which nothing raises
SemFalha == [k |-> 0, passo |-> "none", id |-> 0]

\* C28: the import is idempotent.  After a run that committed, a second run
\* on the same files leaves every table with exactly the rows it has, and
\* no row that was in the database before a run is overwritten by it.
C28_ImportIdempotent ==
    [][((imp' # imp \/ tbl' # tbl) /\ imp'.commits = 1) =>
          /\ apos_importar(tbl', imp'.csv, SemFalha) = tbl'
          /\ \A t \in TblNames : \A e \in tbl[t] : e \in tbl'[t]]_vars

\* C28 witness: a run committed on files that hold a key the database already
\* had and a new key; the table has its own row for the first and the
\* file's row for the second.
C28_Witness ==
    /\ imp.kind = "concluida"
    /\ \E t \in TblNames :
          /\ [id |-> 1, v |-> "csv"] \in imp.csv[t]
          /\ [id |-> 1, v |-> "db"] \in tbl[t]
          /\ [id |-> 1, v |-> "csv"] \notin tbl[t]
          /\ [id |-> 2, v |-> "csv"] \in tbl[t]

\* what the create form may be submitted with
CamposPossiveis ==
    [nome : DriverNames \cup {""}, codigo : {"aaa", ""}, numero : {NaN},
     demais : BOOLEAN]

\* C29: the create form writes only complete records.  An INSERT is issued
\* only when name, code and the other required fields are all non-empty, and
\* then its row holds them; when one is missing the form shows a warning and
\* nothing else, and no statement is executed, committed or rolled back.
C29_CreateOnlyComplete ==
    [][\A campos \in CamposPossiveis, falha \in Falhas :
          (out'.page = "gerenciamento" /\ form_create(campos, falha)) =>
              IF campos.nome = "" \/ campos.codigo = "" \/ ~ campos.demais
              THEN /\ out'.kind = "warning"
                   /\ DOMAIN out' = {"page", "op", "kind"}
                   /\ UNCHANGED <<tables, tx, writes, cache>>
              ELSE /\ out'.kind \in {"success", "error"}
                   /\ out'.comando.tipo = "INSERT"
                   /\ out'.comando.row.driver_name = campos.nome
                   /\ out'.comando.row.code # ""]_vars

\* C29 witness: the form was submitted with a required field missing, after a
\* complete record had been added, and showed the warning.
C29_Witness ==
    /\ out.page = "gerenciamento"
    /\ out.op = "create"
    /\ out.kind = "warning"
    /\ writes > 0
    /\ Len(drivers) = 3

\* C30: no run started from main reaches the CRUD panel.  Whatever the menu
\* selections, connection and load failures and cache expiries, no run shows
\* the panel, and no INSERT, UPDATE or DELETE is executed or committed: the
\* tables and the connection's transaction stay as they were.
C30_MainNeverReachesCrud ==
    [][/\ out'.page # "gerenciamento"
       /\ UNCHANGED <<tables, tx, writes>>]_vars

\* C30 witness: runs from main loaded the data set and rendered the last
\* option of the menu; nothing was written.
C30_Witness ==
    /\ out.page = "hall_da_fama"
    /\ conn_memo = "conn"
    /\ cache.state = "data"
    /\ writes = 0
    /\ drivers = TwoDrivers

============================================================================
